---- MODULE Spec2Model ----
(***************************************************************************)
(* Model of build-push.py: the catalog of images is read from the          *)
(* Dockerfile.template files, narrowed by --only, and built in dependency  *)
(* order by do_builds, one image per iteration of its while loop.          *)
(*                                                                         *)
(* Python dicts are functions; the keys of a dict d are DOMAIN d.  The     *)
(* deps list of an image is kept as the set of its elements: the code only *)
(* tests its length against 0 and the membership of its elements in built. *)
(* Strings that are formatted or parsed (tags, versions) are sequences of  *)
(* one-character strings.                                                  *)
(***************************************************************************)
EXTENDS Integers, Sequences, FiniteSets, TLC

\* ------------------------------------------------------------------ bounds
\* largest number of placeholders in one Dockerfile.template
MaxDeps == 2
\* largest number of --only arguments on the command line
MaxOnly == 2
\* the build loop is cut off after this many docker build calls
MaxBuilds == 5
\* largest number of pages the tag source answers with for one repo
MaxPages == 2

\* directories that may hold a Dockerfile.template
Repos == {"base", "worker", "gateway"}
\* names a template placeholder or an --only argument may carry
Names == Repos \cup {"missing"}

VARIABLES
    pc,             \* position of the process: main, select, do_builds, loop, done
    templates,      \* file system: repo -> placeholders of its Dockerfile.template
    args,           \* parsed command line: [no_push, only]
    bad_request,    \* the request the tag source fails: <<repo, page>>, <<>> for none
    all_containers, \* main: repo -> ImageToBuild
    to_build,       \* main/do_builds: repo -> ImageToBuild still to be scheduled
    ready,          \* do_builds: repo -> ImageToBuild ready to be built
    built,          \* do_builds: repo -> ImageToBuild already built
    handed,         \* history: to_build as it was passed to do_builds
    order,          \* history: repos in the order docker build was called
    pushes,         \* history: repos in the order docker push was called
    rendered,       \* history: repo -> template_data given to chevron.render
    tagged,         \* history: repo -> version string of the tag given to docker build
    reported,       \* history: repos logged as not built
    failed,         \* history: <<command, repo>> of the docker calls that returned non-zero
    error,          \* how the process ended: none, Unbuilt, KeyError, ...
    exit_code,      \* exit status of the process, -1 while it runs
    tag_pages,      \* version resolution alone: the pages of the repo's tags
    new_version     \* version resolution alone: the version given to the repo

vars == <<pc, templates, args, bad_request, all_containers, to_build, ready,
          built, handed, order, pushes, rendered, tagged, reported, failed,
          error, exit_code, tag_pages, new_version>>

\* ----------------------------------------------------------------- helpers
EmptyDict == [r \in {} |-> {}]

\* del d[k]
DelKey_noop(d, k) == d
DelKey(d, k) == [r \in DOMAIN d \ {k} |-> d[r]]

\* d[k] = v
SetKey(d, k, v) == [r \in DOMAIN d \cup {k} |-> IF r = k THEN v ELSE d[r]]

RECURSIVE DelKeys(_, _)
\* for r in keys: del d[r]   (every key present)
DelKeys(d, keys) ==
    IF keys = {} THEN d
    ELSE LET r == CHOOSE k \in keys : TRUE
         IN  DelKeys(DelKey(d, r), keys \ {r})

Digits == <<"0", "1", "2", "3", "4", "5", "6", "7", "8", "9">>

DigitValue(c) == CHOOSE i \in 0..9 : Digits[i + 1] = c

IsDigit(c) == \E i \in 0..9 : Digits[i + 1] = c

RECURSIVE DecimalDigits(_)
\* the digits of %d
DecimalDigits(n) ==
    IF n < 10 THEN <<Digits[n + 1]>>
    ELSE DecimalDigits(n \div 10) \o <<Digits[(n % 10) + 1]>>

RECURSIVE ZeroPad(_, _)
ZeroPad(s, width) == IF Len(s) >= width THEN s ELSE ZeroPad(<<"0">> \o s, width)

RECURSIVE ParseInt(_)
\* int() of a string of decimal digits
ParseInt(s) ==
    IF Len(s) = 0 THEN 0
    ELSE 10 * ParseInt(SubSeq(s, 1, Len(s) - 1)) + DigitValue(s[Len(s)])

\* ------------------------------------------------------------ tag source
\* tag_re = '^v(\d+)$' under fullmatch
tag_re_fullmatch(name) ==
    /\ Len(name) >= 2
    /\ name[1] = "v"
    /\ \A i \in 2..Len(name) : IsDigit(name[i])

Max(a, b) == IF a >= b THEN a ELSE b

RECURSIVE MaxOfPage(_, _)
\* the for loop over result_json['results']
MaxOfPage(results, max_tag) ==
    IF Len(results) = 0 THEN max_tag
    ELSE MaxOfPage(Tail(results),
                   IF tag_re_fullmatch(Head(results))
                   THEN Max(max_tag, ParseInt(Tail(Head(results))))
                   ELSE max_tag)

\* The tag source of the run: repo -> pages, each page holds its tag names
\* and the index of the next page (0: no next page).
Registry ==
    [r \in Repos |->
       CASE r = "base" ->
              <<[results |-> << <<"v","1">>, <<"v","2">> >>, next |-> 2],
                [results |-> << <<"v","X">>, <<"v","1","0">> >>, next |-> 0]>>
         [] r = "worker" ->
              <<[results |-> << >>, next |-> 0]>>
         [] OTHER ->
              <<[results |-> << <<"l","a","t","e","s","t">>, <<"v","0","0","3">> >>,
                 next |-> 0]>>]

FollowPages_first_page(pages, next, max_tag) ==
    MaxOfPage(pages[next].results, max_tag)
RECURSIVE FollowPages(_, _, _)
\* the while True loop of get_max_version
FollowPages(pages, next, max_tag) ==
    LET result_json == pages[next]
        m == MaxOfPage(result_json.results, max_tag)
    IN  IF result_json.next = 0 THEN m
        ELSE FollowPages(pages, result_json.next, m)

get_max_version(repo) == FollowPages(Registry[repo], 1, 0)

\* the pages get_max_version(repo) asks for
PagesOf(repo) == 1..Len(Registry[repo])

\* ------------------------------------------------------------ ImageToBuild
ImageToBuild(version, deps) == [version |-> version, deps |-> deps]

\* 'v%03d' % self.version
string_version(img) == <<"v">> \o ZeroPad(DecimalDigits(img.version), 3)

\* --------------------------------------------------------------- build_one
template_data_unpadded(b) ==
    [repo \in DOMAIN b |-> <<"v">> \o DecimalDigits(b[repo].version)]
template_data_leaves(b) ==
    [repo \in {x \in DOMAIN b : b[x].deps = {}} |-> string_version(b[repo])]
\* {repo: img.string_version for repo, img in built.items()}
template_data(b) == [repo \in DOMAIN b |-> string_version(b[repo])]

\* --------------------------------------------------------------- do_builds
\* len(candidate.deps) == 0
no_dependencies(candidate) == Cardinality(candidate.deps) = 0

not_built_yet_any(candidate, b) ==
    IF \E x \in candidate.deps : x \in DOMAIN b THEN {} ELSE candidate.deps
\* [x for x in candidate.deps if x not in built]
not_built_yet(candidate, b) == {x \in candidate.deps : x \notin DOMAIN b}

\* ------------------------------------------------------------------- Init
DepSets == {D \in SUBSET Names : Cardinality(D) <= MaxDeps}
OnlySets == {W \in SUBSET Names : Cardinality(W) <= MaxOnly}

Init ==
    /\ pc = "main"
    /\ \E S \in SUBSET Repos : templates \in [S -> DepSets]
    \* only = {} stands for args.only is None: action='append' never yields
    \* an empty list
    /\ args \in [no_push : BOOLEAN, only : OnlySets]
    /\ bad_request \in {<<>>} \cup
                       {<<r, p>> : r \in DOMAIN templates, p \in 1..MaxPages}
    /\ bad_request # <<>> => bad_request[2] \in PagesOf(bad_request[1])
    /\ all_containers = EmptyDict
    /\ to_build = EmptyDict
    /\ ready = EmptyDict
    /\ built = EmptyDict
    /\ handed = EmptyDict
    /\ order = <<>>
    /\ pushes = <<>>
    /\ rendered = EmptyDict
    /\ tagged = EmptyDict
    /\ reported = {}
    /\ failed = {}
    /\ error = "none"
    /\ exit_code = -1
    /\ tag_pages = <<>>
    /\ new_version = 0

\* ---------------------------------------------------------------- actions
History == <<handed, order, pushes, rendered, tagged, reported, failed>>

Resolver == <<tag_pages, new_version>>

raise_for_status_first_page(repo, page) ==
    page = 1 /\ bad_request = <<repo, page>>
\* result.raise_for_status() for the request of a page of repo raises
raise_for_status(repo, page) == bad_request = <<repo, page>>

\* get_max_version(repo) raises
ResolutionFails(repo) == \E page \in PagesOf(repo) : raise_for_status(repo, page)

\* main, the glob loop: every template found becomes an ImageToBuild
LoadContainers ==
    /\ pc = "main"
    /\ \A repo \in DOMAIN templates : ~ResolutionFails(repo)
    /\ all_containers' =
         [repo \in DOMAIN templates |->
            ImageToBuild(get_max_version(repo) + 1, templates[repo])]
    /\ pc' = "select"
    /\ UNCHANGED <<templates, args, bad_request, to_build, ready, built,
                   History, error, exit_code>>
    /\ UNCHANGED Resolver

\* main, the glob loop: result.raise_for_status() raises
LoadFails ==
    /\ pc = "main"
    /\ \E repo \in DOMAIN templates : ResolutionFails(repo)
    /\ pc' = "done"
    /\ error' = "HTTPError"
    /\ exit_code' = 1
    /\ UNCHANGED <<templates, args, bad_request, all_containers, to_build,
                   ready, built, History>>
    /\ UNCHANGED Resolver

only_containers_all(containers, only_set) == containers
\* {r: c for r, c in all_containers.items() if r in only_set}
only_containers(containers, only_set) ==
    [r \in {x \in DOMAIN containers : x \in only_set} |-> containers[r]]

\* main: to_build is chosen and handed to do_builds
Select ==
    /\ pc = "select"
    /\ to_build' =
         IF args.only # {}
         THEN only_containers(all_containers, args.only)
         ELSE all_containers
    /\ handed' = to_build'
    /\ pc' = "do_builds"
    /\ UNCHANGED <<templates, args, bad_request, all_containers, ready, built,
                   order, pushes, rendered, tagged, reported, failed, error,
                   exit_code>>
    /\ UNCHANGED Resolver

\* do_builds up to the while loop: the images without dependencies are ready
InitialScan ==
    /\ pc = "do_builds"
    /\ LET rdy == {r \in DOMAIN to_build : no_dependencies(to_build[r])}
       IN  /\ ready' = [r \in rdy |-> to_build[r]]
           /\ to_build' = DelKeys(to_build, rdy)
    /\ built' = EmptyDict
    /\ pc' = "loop"
    /\ UNCHANGED <<templates, args, bad_request, all_containers, History,
                   error, exit_code>>
    /\ UNCHANGED Resolver

\* build_one up to the docker build call, for the image next_build
Render(next_build) ==
    /\ rendered' = SetKey(rendered, next_build, template_data(built))
    /\ tagged' = SetKey(tagged, next_build, string_version(ready[next_build]))
    /\ order' = Append(order, next_build)

\* return codes of a docker command
ReturnCodes == {0, 1}

check_call_ignored(returncode) == FALSE
\* subprocess.check_call raises CalledProcessError
check_call(returncode) == returncode # 0

push_inverted(a) == a.no_push
\* the push argument of do_builds: not args.no_push
push(a) == ~a.no_push

\* the docker calls of one build_one that returned non-zero
NonZero(next_build, build_rc, pushing, push_rc) ==
    {<<"build", next_build>> : x \in {build_rc} \ {0}}
    \cup {<<"push", next_build>> : x \in (IF pushing THEN {push_rc} ELSE {}) \ {0}}

\* one iteration of the while loop in which docker build fails
BuildFails ==
    /\ pc = "loop"
    /\ DOMAIN ready # {}
    /\ Len(order) < MaxBuilds
    /\ \E next_build \in DOMAIN ready : \E build_rc \in ReturnCodes :
         /\ check_call(build_rc)
         /\ Render(next_build)
         /\ failed' = failed \cup NonZero(next_build, build_rc, FALSE, 0)
         /\ pc' = "done"
         /\ error' = "CalledProcessError"
         /\ exit_code' = 1
    /\ UNCHANGED <<templates, args, bad_request, all_containers, to_build,
                   ready, built, handed, pushes, reported>>
    /\ UNCHANGED Resolver

\* one iteration of the while loop in which docker push fails
PushFails ==
    /\ pc = "loop"
    /\ DOMAIN ready # {}
    /\ Len(order) < MaxBuilds
    /\ push(args)
    /\ \E next_build \in DOMAIN ready : \E build_rc, push_rc \in ReturnCodes :
         /\ ~check_call(build_rc)
         /\ check_call(push_rc)
         /\ Render(next_build)
         /\ pushes' = Append(pushes, next_build)
         /\ failed' = failed \cup NonZero(next_build, build_rc, TRUE, push_rc)
         /\ pc' = "done"
         /\ error' = "CalledProcessError"
         /\ exit_code' = 1
    /\ UNCHANGED <<templates, args, bad_request, all_containers, to_build,
                   ready, built, handed, reported>>
    /\ UNCHANGED Resolver

\* one iteration of the while loop in which build_one returns.  The image
\* picked is the first value of ready; the order of ready follows the order
\* of the glob, which is arbitrary, so any ready image may be the one.
BuildNext ==
    /\ pc = "loop"
    /\ DOMAIN ready # {}
    /\ Len(order) < MaxBuilds
    /\ \E next_build \in DOMAIN ready : \E build_rc, push_rc \in ReturnCodes :
         /\ ~check_call(build_rc)
         /\ push(args) => ~check_call(push_rc)
         /\ Render(next_build)
         /\ pushes' = IF push(args) THEN Append(pushes, next_build) ELSE pushes
         /\ failed' = failed \cup NonZero(next_build, build_rc, push(args), push_rc)
         /\ LET built1 == SetKey(built, next_build, ready[next_build])
                ready1 == DelKey(ready, next_build)
                now_ready == {r \in DOMAIN to_build :
                                 Cardinality(not_built_yet(to_build[r], built1)) = 0}
                ready2 == [r \in DOMAIN ready1 \cup now_ready |->
                             IF r \in now_ready THEN to_build[r] ELSE ready1[r]]
           IN  /\ built' = built1
               /\ ready' = ready2
               /\ IF DOMAIN ready2 \subseteq DOMAIN to_build
                  THEN /\ to_build' = DelKeys(to_build, DOMAIN ready2)
                       /\ pc' = "loop"
                       /\ UNCHANGED <<error, exit_code>>
                  \* an image left in ready by an earlier scan comes first in
                  \* ready.keys() and is no key of to_build: del raises
                  ELSE /\ to_build' = to_build
                       /\ pc' = "done"
                       /\ error' = "KeyError"
                       /\ exit_code' = 1
    /\ UNCHANGED <<templates, args, bad_request, all_containers, handed, reported>>
    /\ UNCHANGED Resolver

unbuilt_left_ignored(pending) == FALSE
\* len(to_build) != 0
unbuilt_left(pending) == Cardinality(DOMAIN pending) # 0

\* do_builds after the while loop
Finish ==
    /\ pc = "loop"
    /\ DOMAIN ready = {}
    /\ IF unbuilt_left(to_build)
       THEN /\ reported' = DOMAIN to_build
            /\ error' = "Unbuilt"
            /\ exit_code' = 1
       ELSE /\ reported' = reported
            /\ error' = error
            /\ exit_code' = 0
    /\ pc' = "done"
    /\ UNCHANGED <<templates, args, bad_request, all_containers, to_build,
                   ready, built, handed, order, pushes, rendered, tagged, failed>>
    /\ UNCHANGED Resolver

Next ==
    \/ LoadContainers
    \/ LoadFails
    \/ Select
    \/ InitialScan
    \/ BuildFails
    \/ PushFails
    \/ BuildNext
    \/ Finish

Spec == Init /\ [][Next]_vars

\* the process is sequential and runs until it exits
FairSpec == Spec /\ WF_vars(Next)

\* ----------------------------------------------- version resolution alone
\* page_size of the request
page_size == 2

\* tag names the tag source may hold
TagNames ==
    { <<"v","1">>, <<"v","2">>, <<"v","X">>, <<"v","1","0">>,
      <<"v","0","0","3">>, <<"v">> }

RECURSIVE SeqsUpTo(_, _)
\* the sequences over S of length 0..n
SeqsUpTo(S, n) ==
    IF n = 0 THEN {<<>>}
    ELSE LET shorter == SeqsUpTo(S, n - 1)
         IN  shorter \cup {Append(q, x) : q \in shorter, x \in S}

\* a tag source answering with the given pages one after the other
Paged(contents) ==
    [i \in 1..Len(contents) |->
       [results |-> contents[i],
        next |-> IF i < Len(contents) THEN i + 1 ELSE 0]]

ResolveInit ==
    /\ pc = "resolve"
    /\ \E contents \in SeqsUpTo(SeqsUpTo(TagNames, page_size), MaxPages) :
         /\ Len(contents) >= 1
         /\ tag_pages = Paged(contents)
    /\ new_version = 0
    /\ templates = EmptyDict
    /\ args = [no_push |-> TRUE, only |-> {}]
    /\ bad_request = <<>>
    /\ all_containers = EmptyDict
    /\ to_build = EmptyDict
    /\ ready = EmptyDict
    /\ built = EmptyDict
    /\ handed = EmptyDict
    /\ order = <<>>
    /\ pushes = <<>>
    /\ rendered = EmptyDict
    /\ tagged = EmptyDict
    /\ reported = {}
    /\ failed = {}
    /\ error = "none"
    /\ exit_code = -1

\* main: version = get_max_version(repo) + 1
ResolveVersion ==
    /\ pc = "resolve"
    /\ new_version' = FollowPages(tag_pages, 1, 0) + 1
    /\ pc' = "resolved"
    /\ UNCHANGED <<templates, args, bad_request, all_containers, to_build,
                   ready, built, History, error, exit_code, tag_pages>>

ResolveNext == ResolveVersion

ResolveSpec == ResolveInit /\ [][ResolveNext]_vars

\* ------------------------------------------------------------- properties
\* the repos reached from the images S of cat by following deps
RECURSIVE DepsClosure(_, _)
DepsClosure(cat, S) ==
    LET more == UNION {cat[r].deps : r \in S \cap DOMAIN cat}
    IN  IF more \subseteq S THEN S ELSE DepsClosure(cat, S \cup more)

\* the repos the image r of cat depends on, directly or not
DependsOn(cat, r) == DepsClosure(cat, cat[r].deps)

CycleMembers(cat) == {r \in DOMAIN cat : r \in DependsOn(cat, r)}

Acyclic(cat) == CycleMembers(cat) = {}

NoMissing(cat) == \A r \in DOMAIN cat : cat[r].deps \subseteq DOMAIN cat

\* cycle members and the images that depend on one
CycleBlocked(cat) ==
    {r \in DOMAIN cat : r \in CycleMembers(cat)
                        \/ DependsOn(cat, r) \cap CycleMembers(cat) # {}}

Before(i) == {order[j] : j \in 1..(i - 1)}

Loaded == pc \notin {"main", "select"} /\ error # "HTTPError"

\* C1: when docker build is called for an image, each of its dependencies
\* has been built before it: in the build order every dependency of an image
\* stands before the image.
C1_DepsBuiltFirst ==
    \A i \in 1..Len(order) :
        /\ all_containers[order[i]].deps \subseteq Before(i)
        /\ order[i] \notin Before(i)

C1_Witness ==
    /\ pc = "done"
    /\ error = "none"
    /\ Len(order) = 3
    /\ all_containers[order[3]].deps = {order[1], order[2]}
    /\ all_containers[order[2]].deps = {order[1]}

\* C2: a catalog without cycles and without missing references, run without
\* selection and with every build and push succeeding, ends with every image
\* built and none reported as not built.
C2_AllBuilt ==
    (/\ pc = "done"
     /\ args.only = {}
     /\ error \notin {"HTTPError", "CalledProcessError"}
     /\ Acyclic(all_containers)
     /\ NoMissing(all_containers))
    => (/\ DOMAIN built = DOMAIN all_containers
        /\ reported = {}
        /\ exit_code = 0)

\* C3: when the loop ends with images left in to_build, the repos reported
\* are all the keys of to_build, and for a catalog with a dependency cycle
\* (run without selection) they are exactly the cycle members and the images
\* that depend on a cycle member.
C3_StuckReport ==
    (pc = "done" /\ error = "Unbuilt")
    => (/\ reported = DOMAIN to_build
        /\ (args.only = {} /\ ~Acyclic(all_containers))
              => reported = CycleBlocked(all_containers))

\* C4: every run ends, whatever the catalog and the selection.
C4_Terminates == <>(pc = "done")

C4_Witness ==
    /\ pc = "done"
    /\ Len(order) >= 1
    /\ \E r \in DOMAIN handed : r \in handed[r].deps
    /\ \E r \in DOMAIN handed : handed[r].deps \ DOMAIN all_containers # {}

\* C5: with a selection, the images handed to do_builds are the wanted ones
\* and everything they depend on, each with its dependencies as declared.
C5_WithDependencies ==
    (Loaded /\ args.only # {})
    => (/\ DOMAIN handed =
             DepsClosure(all_containers, args.only) \cap DOMAIN all_containers
        /\ \A r \in DOMAIN handed : handed[r].deps = all_containers[r].deps)

\* C6: when exactly the wanted images are handed to do_builds, their
\* dependencies outside the wanted set count as satisfied: without a backend
\* failure every wanted image is built, and its template data holds a
\* version for each dependency outside the set.
C6_WithoutDependencies ==
    (/\ pc = "done"
     /\ error \in {"none", "Unbuilt"}
     /\ args.only # {}
     /\ args.only \subseteq DOMAIN all_containers
     /\ NoMissing(all_containers)
     /\ Acyclic(handed))
    => (/\ DOMAIN handed = args.only
        /\ args.only \subseteq DOMAIN built
        /\ \A r \in args.only :
              /\ r \in DOMAIN rendered
              /\ handed[r].deps \ args.only \subseteq DOMAIN rendered[r])

\* C7: a selection that names a repo outside the catalog makes the run fail
\* before any build is started.
C7_UnknownWanted ==
    (Loaded /\ ~(args.only \subseteq DOMAIN all_containers))
    => (/\ order = <<>>
        /\ pc = "done" => exit_code # 0)

\* C8: a catalog in which an image names a dependency that is no repo of the
\* catalog makes the run fail before any build is started.
C8_MissingDependency ==
    (Loaded /\ ~NoMissing(all_containers))
    => (/\ order = <<>>
        /\ pc = "done" => exit_code # 0)

\* C9 as stated: the template data of an image has keys only for the direct
\* dependencies of the image.
C9_DirectOnly ==
    \A r \in DOMAIN rendered : DOMAIN rendered[r] \subseteq all_containers[r].deps

\* C9 as amended: the template data of an image has a key for every image
\* built before it in the run and for no other repo.
C9_BuiltBefore ==
    \A i \in 1..Len(order) : DOMAIN rendered[order[i]] = Before(i)

C9_Witness ==
    \E r \in DOMAIN rendered :
        /\ DOMAIN rendered[r] \ all_containers[r].deps # {}
        /\ all_containers[r].deps # {}

\* C10: the template data of an image holds, for each direct dependency, the
\* version string of the tag under which the dependency was built.
C10_DepVersions ==
    \A r \in DOMAIN rendered :
        \A d \in all_containers[r].deps :
            /\ d \in DOMAIN rendered[r]
            /\ d \in DOMAIN tagged
            /\ rendered[r][d] = tagged[d]

C10_Witness ==
    \E r \in DOMAIN rendered :
        /\ Cardinality(all_containers[r].deps) = 2
        /\ rendered[r]["base"] = <<"v", "0", "1", "1">>
        /\ \E d \in all_containers[r].deps : rendered[r][d] # rendered[r]["base"]

\* what a tag name counts for: the number after the v, 0 when it is not a v
\* followed by decimal digits only
TagValue(name) ==
    CASE name = <<"v","1">> -> 1
      [] name = <<"v","2">> -> 2
      [] name = <<"v","1","0">> -> 10
      [] name = <<"v","0","0","3">> -> 3
      [] OTHER -> 0

AllTags(pages) ==
    UNION {{pages[i].results[j] : j \in 1..Len(pages[i].results)} :
             i \in 1..Len(pages)}

Largest(S) == CHOOSE x \in S : \A y \in S : y <= x

TwoPageExample ==
    Paged(<< << <<"v","1">>, <<"v","2">> >>, << <<"v","X">>, <<"v","1","0">> >> >>)

\* C11: the version given to a repo is one more than the largest number of
\* a vN tag on any of its pages, 1 when no tag has that form; tags v1, v2,
\* vX, v10 on two pages give 11.
C11_MaxOverPages ==
    pc = "resolved"
    => (/\ new_version = 1 + Largest({TagValue(t) : t \in AllTags(tag_pages)} \cup {0})
        /\ tag_pages = TwoPageExample => new_version = 11)

C11_Witness ==
    /\ pc = "resolved"
    /\ tag_pages = TwoPageExample
    /\ new_version = 11

\* the tag source fails a request that the run makes
QueryFails ==
    \E repo \in DOMAIN templates : \E page \in PagesOf(repo) :
        bad_request = <<repo, page>>

\* C12: when the tag source fails a request for a page of a repo of the
\* catalog, the run ends with an error and nothing is built or pushed; every
\* version is resolved before the first build.
C12_ResolutionFatal ==
    /\ QueryFails
         => (/\ pc \in {"main", "done"}
             /\ pc = "done" => (error = "HTTPError" /\ exit_code # 0)
             /\ order = <<>>
             /\ pushes = <<>>
             /\ DOMAIN built = {})
    /\ order # <<>> => DOMAIN all_containers = DOMAIN templates

C12_Witness ==
    /\ pc = "done"
    /\ error = "HTTPError"
    /\ bad_request = <<"base", 2>>
    /\ DOMAIN templates = Repos
    /\ templates["worker"] = {}

Last(q) == q[Len(q)]

\* C13: a docker build or docker push that fails ends the run in that very
\* step: the image is not added to built, ready and to_build stay as they
\* were, and no step follows a failure, so nothing else is built or pushed.
C13_FailFast ==
    [][failed' # {}
         => (/\ failed = {}
             /\ pc' = "done"
             /\ exit_code' # 0
             /\ built' = built
             /\ ready' = ready
             /\ to_build' = to_build
             /\ failed' \in {{<<"build", Last(order')>>}, {<<"push", Last(order')>>}}
             /\ Last(order') \notin DOMAIN built')]_vars

C13_Witness ==
    /\ failed # {}
    /\ pc = "done"
    /\ Cardinality(DOMAIN ready) >= 2
    /\ Len(order) >= 2

\* C14: docker push is called only for a tag whose docker build just
\* succeeded and only without --no_push; with --no_push it is never called,
\* and without it every image in built has been pushed successfully.
C14_PushAfterBuild ==
    /\ args.no_push => pushes = <<>>
    /\ \A i \in 1..Len(pushes) :
          /\ i <= Len(order)
          /\ pushes[i] = order[i]
          /\ <<"build", pushes[i]>> \notin failed
    /\ ~args.no_push
          => \A r \in DOMAIN built :
                /\ \E i \in 1..Len(pushes) : pushes[i] = r
                /\ <<"push", r>> \notin failed

C14_Witness ==
    /\ ~args.no_push
    /\ Len(pushes) >= 2
    /\ <<"push", Last(pushes)>> \in failed
    /\ Cardinality(DOMAIN built) >= 1

\* the images the run is to build: the catalog, narrowed by --only
Effective ==
    IF args.only = {} THEN DOMAIN templates ELSE DOMAIN templates \cap args.only

\* C15 as stated: the exit status is 0 exactly when every image of the build
\* set was built; a run that ends with an image in to_build or ready exits
\* non-zero.
C15_ExitZeroIffBuilt ==
    pc = "done"
    => (/\ exit_code = 0 <=> Effective \subseteq DOMAIN built
        /\ DOMAIN to_build \cup DOMAIN ready # {} => exit_code # 0)

\* C15 as amended: the exit status is 0 exactly when the versions were
\* resolved and every image of the build set was built; a run that ends
\* with an image in to_build or ready exits non-zero.
C15_ExitZeroIffResolvedAndBuilt ==
    pc = "done"
    => (/\ exit_code = 0 <=> (error # "HTTPError" /\ Effective \subseteq DOMAIN built)
        /\ DOMAIN to_build \cup DOMAIN ready # {} => exit_code # 0)

C15_Witness ==
    /\ pc = "done"
    /\ error = "Unbuilt"
    /\ exit_code = 1
    /\ DOMAIN built # {}
    /\ DOMAIN to_build # {}

\* C16: a catalog in which an image names itself as a dependency makes the
\* run fail before any image is built.
C16_SelfDependency ==
    (Loaded /\ \E r \in DOMAIN all_containers : r \in all_containers[r].deps)
    => (/\ order = <<>>
        /\ pc = "done" => exit_code # 0)

Partition ==
    /\ DOMAIN to_build \cup DOMAIN ready \cup DOMAIN built = DOMAIN handed
    /\ DOMAIN to_build \cap DOMAIN ready = {}
    /\ DOMAIN to_build \cap DOMAIN built = {}
    /\ DOMAIN ready \cap DOMAIN built = {}

\* C18: at the head of every iteration of the build loop each image is in
\* exactly one of to_build, ready and built; an image enters ready only from
\* to_build and built only from ready, never leaves built, never returns to
\* to_build, and docker build is called at most once for it.
C18_Lifecycle ==
    [][/\ pc' = "loop" => Partition'
       /\ \A r \in Repos :
            /\ (r \in DOMAIN ready' /\ r \notin DOMAIN ready)
                  => (r \in DOMAIN to_build /\ r \notin DOMAIN built)
            /\ (r \in DOMAIN built' /\ r \notin DOMAIN built) => r \in DOMAIN ready
            /\ r \in DOMAIN built => r \in DOMAIN built'
            /\ (r \in DOMAIN to_build' /\ r \notin DOMAIN to_build) => pc = "select"
       /\ \A i, j \in 1..Len(order') : order'[i] = order'[j] => i = j]_vars

C18_Witness ==
    /\ pc = "loop"
    /\ DOMAIN to_build # {}
    /\ DOMAIN ready # {}
    /\ DOMAIN built # {}

\* C19: whenever the keys of ready are deleted from to_build, each of them
\* is a key of to_build: the deletion never raises KeyError.
C19_RemovalNeverFails == error # "KeyError"

====
